---- MODULE Spec2Model ----
(***************************************************************************)
(* ConfigSharingTask.Run (pkg/tasks/configsharing.go): resolve the routes  *)
(* of Prometheus, Alertmanager, (optionally) Grafana and Thanos Querier to *)
(* URLs, assemble the shared ConfigMap and create-or-update it.            *)
(*                                                                         *)
(* Every goroutine of Procs owns one task and calls Run on it repeatedly.  *)
(* A program position "Lnn" is "about to execute line nn"; "LnnW" is "the  *)
(* client call of line nn is in flight".                                   *)
(***************************************************************************)
EXTENDS Naturals, Sequences, FiniteSets

\* ------------------------------------------------------------------ bounds
\* Run invocations started in one behaviour, over all goroutines.
MaxRuns == 2

\* Events of the surroundings in one behaviour: the cluster moving its routes
\* to a new ingress domain, a change of the configuration in force, a caller
\* canceling the context of a Run.
MaxEvents == 1

\* ------------------------------------------------------------- vocabulary
\* The goroutines that invoke Run concurrently.
Procs == {"g1", "g2"}

Endpoints == {"prometheus", "alertmanager", "grafana", "thanos"}
Mandatory == {"prometheus", "alertmanager", "thanos"}

\* A nil *url.URL, a nil *ConfigMap, the nil error Run returns.
Nil == <<>>
\* The nil error of a collaborator call (errors of collaborators are named
\* by their class: "manifest", "api", "canceled").
NilErr == "nil"

VARIABLES
    \* ---- the cluster (collaborators' state)
    ingress,      \* generation of the ingress domain the routes are admitted under
    store,        \* the ConfigMap held by the API server at the target identity, or Nil
    clusterConfig,
                  \* GrafanaConfig.IsEnabled() of the configuration in force
    \* ---- the task and its caller
    config,       \* config[p]: GrafanaConfig.IsEnabled() of the task of p
    ctx,          \* ctx[p]: "live" or "canceled", the context passed to Run
    pc,           \* pc[p]: position of p in Run
    \* ---- Run's locals
    promURL, amURL, grafanaURL, thanosURL, cm,
    ret,          \* ret[p]: what Run returned (Nil: a nil error, or still running)
    \* ---- history, for stating the properties
    runs,         \* Run invocations started so far
    events,       \* events of the surroundings so far
    calls,        \* calls[p]: the collaborator calls of this Run, in order, with outcome
    resolved,     \* resolved[p][e]: the URL GetRouteURL returned for e in this Run
    passed,       \* passed[p]: the arguments SharingConfig received in this Run
    canceledAt,   \* canceledAt[p]: where this Run was when its context was canceled
    upserts       \* the latest two successful upserts, in the order the store
                  \* applied them: what each wrote, and from what

cluster == <<ingress, store, clusterConfig>>
locals == <<promURL, amURL, grafanaURL, thanosURL, cm>>
history == <<runs, calls, resolved, passed, canceledAt, upserts>>
vars == <<ingress, store, clusterConfig, config, ctx, pc, promURL, amURL,
          grafanaURL, thanosURL, cm, ret, runs, events, calls, resolved,
          passed, canceledAt, upserts>>

\* ---------------------------------------------------------------- helpers
Last(s) == s[Len(s)]
LastTwo(s) == IF Len(s) > 2 THEN Tail(s) ELSE s

\* A call record of the history.
Call(op, e, res) == [op |-> op, ep |-> e, res |-> res]

\* The history with one more call started / with the call in flight finished.
Started(p, op, e) == [calls EXCEPT ![p] = Append(@, Call(op, e, "pending"))]
Finished(p, res) == [calls EXCEPT ![p][Len(calls[p])].res = res]
Logged(p, op, e, res) == [calls EXCEPT ![p] = Append(@, Call(op, e, res))]

\* ----------------------------------------------------------- collaborators
\* The URL of the route of e while it is admitted under generation g.
RouteURL(e, g) == <<e, g>>

\* client.GetRouteURL(ctx, route): what the call may return to p. A canceled
\* context ends the call with a cancellation error; otherwise the call yields
\* the URL of the route's current host, or fails on the API.
GetRouteURL(p, route) ==
    IF ctx[p] = "canceled"
    THEN {[url |-> Nil, err |-> "canceled"]}
    ELSE {[url |-> RouteURL(route, ingress), err |-> NilErr],
          [url |-> Nil, err |-> "api"]}

\* client.CreateOrUpdateConfigMap(ctx, cm): the errors the call may return to p.
CreateOrUpdateConfigMap(p) ==
    IF ctx[p] = "canceled" THEN {"canceled"} ELSE {NilErr, "api"}

\* factory.<X>Route(): the errors rendering the route manifest may return.
RouteManifest == {NilErr, "manifest"}

\* factory.SharingConfig(promHost, amHost, grafanaHost, thanosHost): the
\* ConfigMap at the well-known identity; the dashboard key only when its URL
\* is set.
DataKeys(a) ==
    {"prometheus", "alertmanager", "thanosQuerier"}
        \cup (IF a.grafana # Nil THEN {"grafana"} ELSE {})

SharingConfig(a) ==
    [Namespace |-> "openshift-config-managed",
     Name |-> "monitoring-shared-config",
     Data |-> [k \in DataKeys(a) |->
                  CASE k = "prometheus" -> a.prom
                    [] k = "alertmanager" -> a.am
                    [] k = "grafana" -> a.grafana
                    [] k = "thanosQuerier" -> a.thanos]]

\* ------------------------------------------------------------ Run's pieces
\* The route descriptor each GetRouteURL call is given, by the line of the call.
RouteArg(line) ==
    CASE line = "L46" -> "prometheus"
      [] line = "L56" -> "alertmanager"
      [] line = "L69" -> "grafana"
      [] line = "L80" -> "thanos"

\* errors.Wrap(err, message): the message is kept as its words.
Wrap(cause, msg) == [msg |-> msg, cause |-> cause]

\* The messages with the Alertmanager resolution's copied from the Prometheus
\* block and left unedited.
WrapMsgCopied(stage, e) ==
    IF stage = "resolve" /\ e = "alertmanager"
    THEN <<"failed", "to", "retrieve", "Prometheus", "host">>
    ELSE IF stage = "lookup"
         THEN CASE e = "prometheus" ->
                      <<"initializing", "Prometheus", "Route", "failed">>
                [] e = "alertmanager" ->
                      <<"initializing", "Alertmanager", "Route", "failed">>
                [] e = "grafana" ->
                      <<"initializing", "Grafana", "Route", "failed">>
                [] e = "thanos" ->
                      <<"initializing", "Thanos", "Querier", "Route", "failed">>
         ELSE CASE e = "prometheus" ->
                      <<"failed", "to", "retrieve", "Prometheus", "host">>
                [] e = "grafana" ->
                      <<"failed", "to", "retrieve", "Grafana", "host">>
                [] e = "thanos" ->
                      <<"failed", "to", "retrieve", "Thanos", "Querier", "host">>

\* The message each failure is wrapped with.
WrapMsg(stage, e) ==
    CASE stage = "lookup" /\ e = "prometheus" ->
            <<"initializing", "Prometheus", "Route", "failed">>
      [] stage = "resolve" /\ e = "prometheus" ->
            <<"failed", "to", "retrieve", "Prometheus", "host">>
      [] stage = "lookup" /\ e = "alertmanager" ->
            <<"initializing", "Alertmanager", "Route", "failed">>
      [] stage = "resolve" /\ e = "alertmanager" ->
            <<"failed", "to", "retrieve", "Alertmanager", "host">>
      [] stage = "lookup" /\ e = "grafana" ->
            <<"initializing", "Grafana", "Route", "failed">>
      [] stage = "resolve" /\ e = "grafana" ->
            <<"failed", "to", "retrieve", "Grafana", "host">>
      [] stage = "lookup" /\ e = "thanos" ->
            <<"initializing", "Thanos", "Querier", "Route", "failed">>
      [] stage = "resolve" /\ e = "thanos" ->
            <<"failed", "to", "retrieve", "Thanos", "Querier", "host">>

\* errors.Wrapf(err, "reconciling %s/%s Config ConfigMap failed", ...).
WrapfMsg(c) ==
    <<"reconciling", c.Namespace \o "/" \o c.Name, "Config", "ConfigMap", "failed">>

\* Run with one of the error checks left out: the error of that call is
\* dropped and Run goes on.
ErrCheckNoThanosResolve(stage, e) == ~(stage = "resolve" /\ e = "thanos")
ErrCheckNoAlertmanagerLookup(stage, e) == ~(stage = "lookup" /\ e = "alertmanager")
ErrCheckNoPrometheusResolve(stage, e) == ~(stage = "resolve" /\ e = "prometheus")
ErrCheckNoGrafanaResolve(stage, e) == ~(stage = "resolve" /\ e = "grafana")

\* Whether the call of this stage and endpoint is followed by
\* `if err != nil { return ... }`.
ErrCheck(stage, e) == TRUE

\* `var grafanaURL *url.URL`: the value the declaration gives the local.
GrafanaURLDecl(p) == Nil

\* The branch with the flag not consulted, and with the closing brace of the
\* `if` misplaced after the Thanos Querier block.
GrafanaBranchAlways(enabled) == "L64"
GrafanaBranchNested(enabled) == IF enabled THEN "L64" ELSE "L85"

\* `if ...GrafanaConfig.IsEnabled() {`: where Run goes on from line 63.
GrafanaBranch(enabled) == IF enabled THEN "L64" ELSE "L75"

\* The arguments with the first two swapped.
SharingConfigArgsSwapped(p) ==
    [prom |-> amURL[p], am |-> promURL[p],
     grafana |-> grafanaURL[p], thanos |-> thanosURL[p]]

\* The arguments with an unset dashboard URL filled in from the ConfigMap
\* published before.
SharingConfigArgsMerged(p) ==
    [prom |-> promURL[p], am |-> amURL[p],
     grafana |-> IF /\ grafanaURL[p] = Nil
                    /\ store # Nil
                    /\ "grafana" \in DOMAIN store.Data
                 THEN store.Data["grafana"]
                 ELSE grafanaURL[p],
     thanos |-> thanosURL[p]]

\* The arguments with thanosURL a variable the goroutines share: the value
\* another Run has stored there is the one passed.
SharingConfigArgsShared(p) ==
    LET q == CHOOSE x \in Procs : x # p
    IN  [prom |-> promURL[p], am |-> amURL[p], grafana |-> grafanaURL[p],
         thanos |-> IF thanosURL[q] # Nil THEN thanosURL[q] ELSE thanosURL[p]]

\* The arguments of the SharingConfig call.
SharingConfigArgs(p) ==
    [prom |-> promURL[p], am |-> amURL[p],
     grafana |-> grafanaURL[p], thanos |-> thanosURL[p]]

\* `return e`: Run of p is over and has returned e.
Return(p, e) ==
    /\ pc' = [pc EXCEPT ![p] = "done"]
    /\ ret' = [ret EXCEPT ![p] = e]

\* A failed call at `stage` for `e`: return the wrapped error, or, were the
\* check absent, go on to `next`.
OnError(p, stage, e, cause, msg, next) ==
    IF ErrCheck(stage, e)
    THEN Return(p, Wrap(cause, msg))
    ELSE /\ pc' = [pc EXCEPT ![p] = next]
         /\ UNCHANGED ret

\* factory.<X>Route() and its error check, at line `at`.
RouteLookup(p, e, at, next) ==
    /\ pc[p] = at
    /\ \E err \in RouteManifest :
          /\ calls' = Logged(p, "lookup", e, IF err = NilErr THEN "ok" ELSE err)
          /\ IF err = NilErr
             THEN pc' = [pc EXCEPT ![p] = next] /\ UNCHANGED ret
             ELSE OnError(p, "lookup", e, err, WrapMsg("lookup", e), next)
    /\ UNCHANGED <<events, cluster, config, ctx, locals, runs, resolved, passed,
                   canceledAt, upserts>>

\* client.GetRouteURL(ctx, route) is called at line `at`.
ResolveCall(p, at) ==
    /\ pc[p] = at
    /\ pc' = [pc EXCEPT ![p] = at \o "W"]
    /\ calls' = Started(p, "resolve", RouteArg(at))
    /\ UNCHANGED <<events, cluster, config, ctx, locals, ret, runs, resolved,
                   passed, canceledAt, upserts>>

\* The call of line `at` returns `out`, and its error check. The caller
\* assigns out.url to the local of endpoint e.
ResolveReturn(p, e, at, next, out) ==
    /\ pc[p] = at \o "W"
    /\ calls' = Finished(p, IF out.err = NilErr THEN "ok" ELSE out.err)
    /\ resolved' = [resolved EXCEPT ![p][RouteArg(at)] = out.url]
    /\ IF out.err = NilErr
       THEN pc' = [pc EXCEPT ![p] = next] /\ UNCHANGED ret
       ELSE OnError(p, "resolve", e, out.err, WrapMsg("resolve", e), next)
    /\ UNCHANGED <<events, cluster, config, ctx, cm, runs, passed, canceledAt,
                   upserts>>

\* ------------------------------------------------------------------- Init
Init ==
    /\ ingress = 0
    /\ store = Nil
    /\ clusterConfig \in BOOLEAN
    /\ config = [p \in Procs |-> FALSE]
    /\ ctx = [p \in Procs |-> "live"]
    /\ pc = [p \in Procs |-> "idle"]
    /\ promURL = [p \in Procs |-> Nil]
    /\ amURL = [p \in Procs |-> Nil]
    /\ grafanaURL = [p \in Procs |-> Nil]
    /\ thanosURL = [p \in Procs |-> Nil]
    /\ cm = [p \in Procs |-> Nil]
    /\ ret = [p \in Procs |-> Nil]
    /\ runs = 0
    /\ events = 0
    /\ calls = [p \in Procs |-> <<>>]
    /\ resolved = [p \in Procs |-> [e \in Endpoints |-> Nil]]
    /\ passed = [p \in Procs |-> Nil]
    /\ canceledAt = [p \in Procs |-> "never"]
    /\ upserts = <<>>

\* ---------------------------------------------------------------- actions
\* NewConfigSharingTask(client, factory, config): p builds its task, or a
\* new one in place of the one it has run, on the configuration in force.
NewConfigSharingTask(p) ==
    /\ pc[p] \in {"idle", "done"}
    /\ config' = [config EXCEPT ![p] = clusterConfig]
    /\ pc' = [pc EXCEPT ![p] = "built"]
    /\ ctx' = [ctx EXCEPT ![p] = "live"]
    /\ promURL' = [promURL EXCEPT ![p] = Nil]
    /\ amURL' = [amURL EXCEPT ![p] = Nil]
    /\ grafanaURL' = [grafanaURL EXCEPT ![p] = Nil]
    /\ thanosURL' = [thanosURL EXCEPT ![p] = Nil]
    /\ cm' = [cm EXCEPT ![p] = Nil]
    /\ ret' = [ret EXCEPT ![p] = Nil]
    /\ calls' = [calls EXCEPT ![p] = <<>>]
    /\ resolved' = [resolved EXCEPT ![p] = [e \in Endpoints |-> Nil]]
    /\ passed' = [passed EXCEPT ![p] = Nil]
    /\ canceledAt' = [canceledAt EXCEPT ![p] = "never"]
    /\ UNCHANGED <<events, cluster, runs, upserts>>

\* p calls Run(ctx) on its task: a fresh frame, a live context.
Run(p) ==
    /\ pc[p] \in {"built", "done"}
    /\ runs < MaxRuns
    /\ runs' = runs + 1
    /\ pc' = [pc EXCEPT ![p] = "L41"]
    /\ ctx' = [ctx EXCEPT ![p] = "live"]
    /\ promURL' = [promURL EXCEPT ![p] = Nil]
    /\ amURL' = [amURL EXCEPT ![p] = Nil]
    /\ grafanaURL' = [grafanaURL EXCEPT ![p] = Nil]
    /\ thanosURL' = [thanosURL EXCEPT ![p] = Nil]
    /\ cm' = [cm EXCEPT ![p] = Nil]
    /\ ret' = [ret EXCEPT ![p] = Nil]
    /\ calls' = [calls EXCEPT ![p] = <<>>]
    /\ resolved' = [resolved EXCEPT ![p] = [e \in Endpoints |-> Nil]]
    /\ passed' = [passed EXCEPT ![p] = Nil]
    /\ canceledAt' = [canceledAt EXCEPT ![p] = "never"]
    /\ UNCHANGED <<events, cluster, config, upserts>>

\* The caller cancels the context of the Run in progress (or its deadline
\* expires).
Cancel(p) ==
    /\ pc[p] \notin {"idle", "built", "done"}
    /\ ctx[p] = "live"
    /\ events < MaxEvents
    /\ events' = events + 1
    /\ ctx' = [ctx EXCEPT ![p] = "canceled"]
    /\ canceledAt' = [canceledAt EXCEPT ![p] = pc[p]]
    /\ UNCHANGED <<cluster, config, pc, locals, ret, runs, calls, resolved,
                   passed, upserts>>

\* The configuration in force is replaced by one with the dashboard flag
\* the other way.
ConfigChange ==
    /\ events < MaxEvents
    /\ events' = events + 1
    /\ clusterConfig' = ~clusterConfig
    /\ UNCHANGED <<ingress, store, config, ctx, pc, locals, ret, history>>

\* The cluster moves to a new ingress domain: every route gets a new host.
RouteChange ==
    /\ events < MaxEvents
    /\ events' = events + 1
    /\ ingress' = ingress + 1
    /\ UNCHANGED <<clusterConfig, store, config, ctx, pc, locals, ret, history>>

\* promRoute, err := t.factory.PrometheusK8sRoute()
PrometheusK8sRoute(p) == RouteLookup(p, "prometheus", "L41", "L46")

\* promURL, err := t.client.GetRouteURL(ctx, promRoute)
GetPrometheusURL(p) == ResolveCall(p, "L46")

GetPrometheusURLReturn(p) ==
    \E out \in GetRouteURL(p, RouteArg("L46")) :
        /\ ResolveReturn(p, "prometheus", "L46", "L51", out)
        /\ promURL' = [promURL EXCEPT ![p] = out.url]
        /\ UNCHANGED <<amURL, grafanaURL, thanosURL>>

\* amRoute, err := t.factory.AlertmanagerRoute()
AlertmanagerRoute(p) == RouteLookup(p, "alertmanager", "L51", "L56")

\* amURL, err := t.client.GetRouteURL(ctx, amRoute)
GetAlertmanagerURL(p) == ResolveCall(p, "L56")

GetAlertmanagerURLReturn(p) ==
    \E out \in GetRouteURL(p, RouteArg("L56")) :
        /\ ResolveReturn(p, "alertmanager", "L56", "L61", out)
        /\ amURL' = [amURL EXCEPT ![p] = out.url]
        /\ UNCHANGED <<promURL, grafanaURL, thanosURL>>

\* var grafanaURL *url.URL; if ...GrafanaConfig.IsEnabled() {
IsEnabled(p) ==
    /\ pc[p] = "L61"
    /\ grafanaURL' = [grafanaURL EXCEPT ![p] = GrafanaURLDecl(p)]
    /\ pc' = [pc EXCEPT ![p] = GrafanaBranch(config[p])]
    /\ UNCHANGED <<events, cluster, config, ctx, promURL, amURL, thanosURL,
                   cm, ret, history>>

\* grafanaRoute, err := t.factory.GrafanaRoute()
GrafanaRoute(p) == RouteLookup(p, "grafana", "L64", "L69")

\* grafanaURL, err = t.client.GetRouteURL(ctx, grafanaRoute)
GetGrafanaURL(p) == ResolveCall(p, "L69")

GetGrafanaURLReturn(p) ==
    \E out \in GetRouteURL(p, RouteArg("L69")) :
        /\ ResolveReturn(p, "grafana", "L69", "L75", out)
        /\ grafanaURL' = [grafanaURL EXCEPT ![p] = out.url]
        /\ UNCHANGED <<promURL, amURL, thanosURL>>

\* thanosRoute, err := t.factory.ThanosQuerierRoute()
ThanosQuerierRoute(p) == RouteLookup(p, "thanos", "L75", "L80")

\* thanosURL, err := t.client.GetRouteURL(ctx, thanosRoute)
GetThanosURL(p) == ResolveCall(p, "L80")

GetThanosURLReturn(p) ==
    \E out \in GetRouteURL(p, RouteArg("L80")) :
        /\ ResolveReturn(p, "thanos", "L80", "L85", out)
        /\ thanosURL' = [thanosURL EXCEPT ![p] = out.url]
        /\ UNCHANGED <<promURL, amURL, grafanaURL>>

\* cm := t.factory.SharingConfig(promURL, amURL, grafanaURL, thanosURL)
BuildSharingConfig(p) ==
    /\ pc[p] = "L85"
    /\ cm' = [cm EXCEPT ![p] = SharingConfig(SharingConfigArgs(p))]
    /\ passed' = [passed EXCEPT ![p] = SharingConfigArgs(p)]
    /\ pc' = [pc EXCEPT ![p] = "L86"]
    /\ UNCHANGED <<events, cluster, config, ctx, promURL, amURL, grafanaURL,
                   thanosURL, ret, runs, calls, resolved, canceledAt,
                   upserts>>

\* err = t.client.CreateOrUpdateConfigMap(ctx, cm)
Upsert(p) ==
    /\ pc[p] = "L86"
    /\ pc' = [pc EXCEPT ![p] = "L86W"]
    /\ calls' = Started(p, "upsert", "configmap")
    /\ UNCHANGED <<events, cluster, config, ctx, locals, ret, runs, resolved,
                   passed, canceledAt, upserts>>

\* The upsert returns: the store has replaced the ConfigMap, or the call
\* failed and the store is as it was. Then the error check and `return nil`.
UpsertReturn(p) ==
    /\ pc[p] = "L86W"
    /\ \E err \in CreateOrUpdateConfigMap(p) :
          /\ calls' = Finished(p, IF err = NilErr THEN "ok" ELSE err)
          /\ IF err = NilErr
             THEN /\ store' = cm[p]
                  /\ upserts' = LastTwo(Append(upserts,
                        [cm |-> cm[p], resolved |-> resolved[p],
                         enabled |-> config[p]]))
                  /\ Return(p, Nil)
             ELSE /\ UNCHANGED <<store, upserts>>
                  /\ IF ErrCheck("upsert", "configmap")
                     THEN Return(p, Wrap(err, WrapfMsg(cm[p])))
                     ELSE Return(p, Nil)
    /\ UNCHANGED <<events, ingress, clusterConfig, config, ctx, locals, runs,
                   resolved, passed, canceledAt>>

Next ==
    \/ \E p \in Procs :
          \/ NewConfigSharingTask(p)
          \/ Run(p)
          \/ Cancel(p)
          \/ PrometheusK8sRoute(p)
          \/ GetPrometheusURL(p)
          \/ GetPrometheusURLReturn(p)
          \/ AlertmanagerRoute(p)
          \/ GetAlertmanagerURL(p)
          \/ GetAlertmanagerURLReturn(p)
          \/ IsEnabled(p)
          \/ GrafanaRoute(p)
          \/ GetGrafanaURL(p)
          \/ GetGrafanaURLReturn(p)
          \/ ThanosQuerierRoute(p)
          \/ GetThanosURL(p)
          \/ GetThanosURLReturn(p)
          \/ BuildSharingConfig(p)
          \/ Upsert(p)
          \/ UpsertReturn(p)
    \/ RouteChange
    \/ ConfigChange

Spec == Init /\ [][Next]_vars

\* ------------------------------------------------------------- properties
Done(p) == pc[p] = "done"
IsError(res) == res \notin {"ok", "pending"}

\* The calls of the Run of p, without their outcome.
Ops(p) == [i \in 1..Len(calls[p]) |-> <<calls[p][i].op, calls[p][i].ep>>]
Made(p, op, e) ==
    \E i \in 1..Len(calls[p]) : calls[p][i].op = op /\ calls[p][i].ep = e
Succeeded(p, op, e) ==
    \E i \in 1..Len(calls[p]) : calls[p][i] = Call(op, e, "ok")
Failed(p, op, e) ==
    \E i \in 1..Len(calls[p]) :
        calls[p][i].op = op /\ calls[p][i].ep = e /\ IsError(calls[p][i].res)
AllOk(p) == \A i \in 1..Len(calls[p]) : calls[p][i].res = "ok"

IsPrefix(s, t) == Len(s) <= Len(t) /\ \A i \in 1..Len(s) : s[i] = t[i]

\* The document doc carries exactly the URLs r, resolved under flag `enabled`.
Carries(doc, r, enabled) ==
    /\ doc # Nil
    /\ {"prometheus", "alertmanager", "thanosQuerier"} \subseteq DOMAIN doc.Data
    /\ doc.Data["prometheus"] = r["prometheus"] /\ r["prometheus"] # Nil
    /\ doc.Data["alertmanager"] = r["alertmanager"] /\ r["alertmanager"] # Nil
    /\ doc.Data["thanosQuerier"] = r["thanos"] /\ r["thanos"] # Nil
    /\ IF enabled
       THEN /\ "grafana" \in DOMAIN doc.Data
            /\ doc.Data["grafana"] = r["grafana"] /\ r["grafana"] # Nil
       ELSE DOMAIN doc.Data = {"prometheus", "alertmanager", "thanosQuerier"}

\* C1. No partial publish: once a descriptor lookup or a URL resolution of a
\* mandatory endpoint has failed in a Run, that Run has returned a non-nil
\* error and has made no upsert call.
C1_NoPartialPublish ==
    \A p \in Procs :
        (\E i \in 1..Len(calls[p]) :
            /\ calls[p][i].ep \in Mandatory
            /\ calls[p][i].op \in {"lookup", "resolve"}
            /\ IsError(calls[p][i].res))
            => /\ Done(p)
               /\ ret[p] # Nil
               /\ ~Made(p, "upsert", "configmap")
               /\ cm[p] = Nil

\* A Run whose last mandatory resolution (Thanos Querier) failed after the
\* other endpoints resolved, while a ConfigMap is published.
C1_Witness ==
    \E p \in Procs :
        /\ Done(p)
        /\ Succeeded(p, "resolve", "prometheus")
        /\ Succeeded(p, "resolve", "alertmanager")
        /\ Failed(p, "resolve", "thanos")
        /\ store # Nil

\* C2. Fail-fast without retry: in a Run no call follows a failed call (only
\* the last call of a Run can have failed, and then the Run has returned),
\* and no collaborator operation is invoked twice.
C2_FailFast ==
    \A p \in Procs :
        /\ \A i \in 1..Len(calls[p]) :
              IsError(calls[p][i].res) => i = Len(calls[p]) /\ Done(p)
        /\ \A i \in 1..Len(calls[p]) : \A j \in (i + 1)..Len(calls[p]) :
              calls[p][i].op # calls[p][j].op \/ calls[p][i].ep # calls[p][j].ep

\* A Run that ended on the failed Alertmanager descriptor lookup, its third
\* call.
C2_Witness ==
    \E p \in Procs :
        /\ Done(p)
        /\ Len(calls[p]) = 3
        /\ Failed(p, "lookup", "alertmanager")

\* The order of the calls of a Run as the code has it.
CodeOrder(enabled) ==
    <<<<"lookup", "prometheus">>, <<"resolve", "prometheus">>,
      <<"lookup", "alertmanager">>, <<"resolve", "alertmanager">>>>
    \o (IF enabled
        THEN <<<<"lookup", "grafana">>, <<"resolve", "grafana">>>>
        ELSE <<>>)
    \o <<<<"lookup", "thanos">>, <<"resolve", "thanos">>,
         <<"upsert", "configmap">>>>

\* The order with the dashboard after the three mandatory endpoints.
MandatoryFirstOrder(enabled) ==
    <<<<"lookup", "prometheus">>, <<"resolve", "prometheus">>,
      <<"lookup", "alertmanager">>, <<"resolve", "alertmanager">>,
      <<"lookup", "thanos">>, <<"resolve", "thanos">>>>
    \o (IF enabled
        THEN <<<<"lookup", "grafana">>, <<"resolve", "grafana">>>>
        ELSE <<>>)
    \o <<<<"upsert", "configmap">>>>

\* C3, as stated. Strict stage order: the calls of a Run are made in the order
\* Prometheus, Alertmanager, Thanos Querier (each lookup, then resolution),
\* then the dashboard if enabled, then the upsert.
C3_OrderMandatoryFirst ==
    \A p \in Procs : IsPrefix(Ops(p), MandatoryFirstOrder(config[p]))

\* C3, amended. The calls of a Run are made in the order Prometheus,
\* Alertmanager, the dashboard (Grafana) if enabled, Thanos Querier (each
\* lookup, then resolution), then the upsert; each call is made only after
\* the calls before it have succeeded, and the document is assembled only
\* after all lookups and resolutions.
C3_StageOrder ==
    \A p \in Procs :
        /\ IsPrefix(Ops(p), CodeOrder(config[p]))
        /\ \A i \in 1..Len(calls[p]) - 1 : calls[p][i].res = "ok"
        /\ passed[p] # Nil => Len(calls[p]) >= Len(CodeOrder(config[p])) - 1

\* A Run with the dashboard enabled that has made every call, the upsert
\* included.
C3_Witness ==
    \E p \in Procs :
        /\ config[p]
        /\ Done(p)
        /\ Ops(p) = CodeOrder(TRUE)

\* C4. Disabled optional endpoint: with the dashboard flag disabled a Run
\* makes no descriptor lookup and no URL resolution for the dashboard, the
\* dashboard URL it passes to the document assembly is nil, and the error it
\* returns, if any, is not a dashboard error.
C4_DisabledDashboard ==
    \A p \in Procs :
        ~config[p] =>
            /\ ~Made(p, "lookup", "grafana")
            /\ ~Made(p, "resolve", "grafana")
            /\ grafanaURL[p] = Nil
            /\ passed[p] # Nil => passed[p].grafana = Nil
            /\ ret[p] # Nil =>
                  /\ ret[p].msg # WrapMsg("lookup", "grafana")
                  /\ ret[p].msg # WrapMsg("resolve", "grafana")

\* A Run with the flag disabled that has assembled its document and returned.
C4_Witness ==
    \E p \in Procs :
        /\ ~config[p]
        /\ Done(p)
        /\ passed[p] # Nil
        /\ passed[p].grafana = Nil
        /\ passed[p].thanos # Nil

\* C5. Successful publish: a Run all of whose calls succeeded has returned
\* nil and has made exactly one upsert call, for a document that carries for
\* each mandatory endpoint the URL resolved in this Run, and the dashboard
\* URL as resolved when the flag is enabled and no dashboard entry otherwise.
C5_SuccessfulPublish ==
    \A p \in Procs :
        Done(p) /\ AllOk(p) =>
            /\ ret[p] = Nil
            /\ Cardinality({i \in 1..Len(calls[p]) : calls[p][i].op = "upsert"}) = 1
            /\ Last(calls[p]).op = "upsert"
            /\ Carries(cm[p], resolved[p], config[p])
            /\ \A e \in Endpoints :
                  resolved[p][e] # Nil => resolved[p][e][1] = e

\* A successful Run with the dashboard enabled, and one with it disabled.
C5_Witness ==
    /\ \E p \in Procs :
          Done(p) /\ AllOk(p) /\ config[p] /\ "grafana" \in DOMAIN cm[p].Data
    /\ \E p \in Procs :
          Done(p) /\ AllOk(p) /\ ~config[p] /\ "grafana" \notin DOMAIN cm[p].Data

\* A word of an error message in lower case.
Lower(w) ==
    CASE w = "Prometheus" -> "prometheus"
      [] w = "Alertmanager" -> "alertmanager"
      [] w = "Grafana" -> "grafana"
      [] w = "Thanos" -> "thanos"
      [] w = "Querier" -> "querier"
      [] w = "Route" -> "route"
      [] w = "Config" -> "config"
      [] w = "ConfigMap" -> "configmap"
      [] OTHER -> w

\* The name an endpoint goes by, in words.
EndpointName(e) ==
    CASE e = "prometheus" -> <<"prometheus">>
      [] e = "alertmanager" -> <<"alertmanager">>
      [] e = "grafana" -> <<"grafana">>
      [] e = "thanos" -> <<"thanos", "querier">>

\* The message msg contains the words ws in a row, case apart.
Mentions(msg, ws) ==
    \E i \in 0..(Len(msg) - Len(ws)) :
        \A j \in 1..Len(ws) : Lower(msg[i + j]) = ws[j]

\* The nine places a Run can fail at.
FailurePoints ==
    ({"lookup", "resolve"} \X Endpoints) \cup {<<"upsert", "configmap">>}

\* The message msg names failure point fp: its stage, and its endpoint or
\* (for the upsert) the namespace/name of the target c.
Identifies(msg, fp, c) ==
    CASE fp[1] = "lookup" ->
            Mentions(msg, <<"initializing">>) /\ Mentions(msg, <<"route">>)
                /\ Mentions(msg, EndpointName(fp[2]))
      [] fp[1] = "resolve" ->
            Mentions(msg, <<"retrieve">>) /\ Mentions(msg, <<"host">>)
                /\ Mentions(msg, EndpointName(fp[2]))
      [] fp[1] = "upsert" ->
            Mentions(msg, <<"reconciling">>)
                /\ c # Nil
                /\ Mentions(msg, <<c.Namespace \o "/" \o c.Name>>)

\* C6. Error identification: a Run that has returned nil made only calls
\* that succeeded; a Run that has returned an error returns the error of its
\* failed call, wrapped in a message that names the stage and the endpoint
\* (or the target namespace/name) of that call and of no other of the nine
\* failure points; an Alertmanager resolution failure mentions
\* "alertmanager".
C6_ErrorIdentification ==
    \A p \in Procs :
        Done(p) =>
            /\ ret[p] = Nil <=> AllOk(p)
            /\ ret[p] # Nil =>
                  /\ ret[p].cause = Last(calls[p]).res
                  /\ {fp \in FailurePoints : Identifies(ret[p].msg, fp, cm[p])}
                        = {Last(Ops(p))}
            /\ Failed(p, "resolve", "alertmanager") =>
                  Mentions(ret[p].msg, <<"alertmanager">>)

\* A Run that returned the error of the failed Alertmanager resolution, and a
\* Run that returned the error of a failed upsert.
C6_Witness ==
    /\ \E p \in Procs :
          /\ Done(p)
          /\ Failed(p, "resolve", "alertmanager")
          /\ ret[p] # Nil
    /\ \E p \in Procs :
          /\ Done(p)
          /\ Failed(p, "upsert", "configmap")
          /\ ret[p] # Nil

\* Two upserts were made from the same collaborator responses and flag.
SameResponses(u, v) == u.resolved = v.resolved /\ u.enabled = v.enabled

\* C7. Idempotence and statelessness: two successive upserts made from
\* unchanged collaborator responses and flag wrote identical documents, and
\* the document of every upsert carries exactly the URLs resolved in the Run
\* that made it, whatever was published or left over before.
C7_Idempotence ==
    /\ Len(upserts) = 2 /\ SameResponses(upserts[1], upserts[2])
          => upserts[1].cm = upserts[2].cm
    /\ \A i \in 1..Len(upserts) :
          Carries(upserts[i].cm, upserts[i].resolved, upserts[i].enabled)

\* Two successive upserts from the same responses, dashboard included.
C7_Witness ==
    /\ Len(upserts) = 2
    /\ SameResponses(upserts[1], upserts[2])
    /\ upserts[2].enabled

\* The positions at which a client call that takes the context is in flight.
InFlight == {"L46W", "L56W", "L69W", "L80W", "L86W"}
CallAt(at) ==
    CASE at = "L46W" -> <<"resolve", RouteArg("L46")>>
      [] at = "L56W" -> <<"resolve", RouteArg("L56")>>
      [] at = "L69W" -> <<"resolve", RouteArg("L69")>>
      [] at = "L80W" -> <<"resolve", RouteArg("L80")>>
      [] at = "L86W" -> <<"upsert", "configmap">>

\* C8. Cancellation: when the context of a Run was canceled while a URL
\* resolution or the upsert was in flight, then once that call is over the
\* Run has returned an error, the error of that call, classified as a
\* cancellation, and the call is the last one the Run has made.
C8_Cancellation ==
    \A p \in Procs :
        canceledAt[p] \in InFlight /\ pc[p] # canceledAt[p] =>
            /\ Done(p)
            /\ ret[p] # Nil
            /\ ret[p].cause = "canceled"
            /\ Last(Ops(p)) = CallAt(canceledAt[p])
            /\ Last(calls[p]).res = "canceled"

\* A Run canceled during its first resolution that has returned, with a
\* ConfigMap of an earlier Run in the store.
C8_Witness ==
    \E p \in Procs :
        /\ canceledAt[p] = "L46W"
        /\ Done(p)
        /\ store # Nil

\* C9. Concurrent invocations: whatever the interleaving of the Runs, the
\* ConfigMap the store holds is the one the latest successful upsert wrote,
\* and it is the complete document of one Run: it carries the URLs that Run
\* resolved itself, all mandatory ones set.
C9_ConcurrentRuns ==
    /\ store = Nil <=> upserts = <<>>
    /\ store # Nil =>
          /\ store = Last(upserts).cm
          /\ Carries(store, Last(upserts).resolved, Last(upserts).enabled)
    /\ \A p \in Procs :
          pc[p] \in {"L86", "L86W"} => Carries(cm[p], resolved[p], config[p])

\* Two Runs have overlapped and both have published: the second writer
\* resolved its Prometheus URL before the routes changed, the first writer
\* its Thanos Querier URL after; the store holds the second document.
C9_Witness ==
    /\ Len(upserts) = 2
    /\ upserts[2].resolved["prometheus"] = RouteURL("prometheus", 0)
    /\ upserts[1].resolved["thanos"] = RouteURL("thanos", 1)
    /\ upserts[1].cm # upserts[2].cm
    /\ store = upserts[2].cm

\* C10. Enabled optional endpoint is blocking: once the descriptor lookup or
\* the URL resolution of the dashboard has failed in a Run (which takes the
\* flag enabled), that Run has returned an error, has made no upsert and no
\* Thanos Querier call, and Prometheus and Alertmanager had resolved.
C10_EnabledDashboardBlocks ==
    \A p \in Procs :
        Failed(p, "lookup", "grafana") \/ Failed(p, "resolve", "grafana") =>
            /\ config[p]
            /\ Done(p)
            /\ ret[p] # Nil
            /\ ~Made(p, "upsert", "configmap")
            /\ ~Made(p, "lookup", "thanos")
            /\ ~Made(p, "resolve", "thanos")
            /\ Succeeded(p, "resolve", "prometheus")
            /\ Succeeded(p, "resolve", "alertmanager")

\* A Run that ended on the failed dashboard resolution.
C10_Witness ==
    \E p \in Procs :
        /\ config[p]
        /\ Done(p)
        /\ Failed(p, "resolve", "grafana")
        /\ promURL[p] # Nil
        /\ amURL[p] # Nil
====
